---- MODULE Spec2Model ----
(***************************************************************************)
(* Best-fit renderer of pretty.rs.                                         *)
(*                                                                         *)
(* src/pretty/doc.rs holds the two-stack interpreter (`best`, `fitting`)   *)
(* over Nil, Append, Group, Nest, Newline and Text.  src/lib.rs holds the  *)
(* document type with the further variants FlatAlt, Union, Column, Nesting *)
(* and Annotated and the builders; the arms of the interpreter for those   *)
(* variants are not part of doc.rs and are taken from the specification    *)
(* (section 4.3).                                                          *)
(*                                                                         *)
(* A document is a tree of tagged tuples.  A `&Doc` reference held by a    *)
(* command is the path from the root to the node it points to, so that two *)
(* equal subtrees at different places stay different references.           *)
(* Text is a sequence of one-character strings; the output is the          *)
(* sequence of characters written to the sink.                             *)
(* The machine word is scaled down from 64 to IntBits bits: u64 values lie *)
(* in 0..2^IntBits - 1 and `as i64` wraps at 2^(IntBits - 1).  Spec renders *)
(* into a sink that never fails at widths the cast leaves alone; SpecMax   *)
(* renders at the widths around the wrap and SpecSink into a sink that may *)
(* fail.  hist, anns and flatLine are history variables: they record what  *)
(* the loop did and no action reads them.                                  *)
(***************************************************************************)
EXTENDS Integers, Sequences, FiniteSets, TLC

VARIABLES
    doc,       \* the root document handed to best
    width,     \* the page width handed to best
    pos,       \* best: the current output column
    bcmds,     \* best: the back stack of commands, top last
    fcmds,     \* best: the scratch stack fitting works on
    out,       \* the characters written to the sink so far
    res,       \* best: the result of the last write, "ok" or an error
    anns,      \* history: the annotation calls the sink has received
    pc,        \* "loop" while the main loop runs, "done" after it
    hist,      \* history: the commands the main loop has popped, in order
    flatLine   \* history: a Break-mode group was laid out Flat by a
               \* successful fit test on the current output line

vars == <<doc, width, pos, bcmds, fcmds, out, res, anns, pc, hist, flatLine>>

(***************************************************************************)
(* Bounds of the model.                                                    *)
(***************************************************************************)
MaxWidth == 4
MaxTextLen == 2
MaxNest == 1
MaxCol == 8
IntBits == 8

(* The page width the tests use when none is given. *)
DefaultTestWidth == 70

(***************************************************************************)
(* Sequence helpers.                                                       *)
(***************************************************************************)
Push(s, e) == Append(s, e)
Top(s) == s[Len(s)]
Pop(s) == SubSeq(s, 1, Len(s) - 1)

(***************************************************************************)
(* The document type and its builders.                                     *)
(***************************************************************************)
Flat == "Flat"
Break == "Break"

Nil == <<"Nil">>
Line == <<"Line">>
Text(s) == <<"Text", s>>

nil == Nil

hardline == Line

text(s) == Text(s)

space == Text(<<" ">>)

append(this, that) ==
    IF this = Nil THEN that
    ELSE IF that = Nil THEN this
    ELSE <<"Append", this, that>>

flat_alt(this, that) == <<"FlatAlt", this, that>>

group(this) == <<"Group", this>>

nest(offset, this) ==
    IF this = Nil THEN this
    ELSE IF offset = 0 THEN this
    ELSE <<"Nest", offset, this>>

union(this, other) == <<"Union", this, other>>

line == flat_alt(hardline, space)

line_ == flat_alt(hardline, nil)

(* A closure usize -> Doc is a function on 0..MaxCol; the node keeps it as
   a table: entry c + 1 is the document the closure returns for c. *)
column(f) == <<"Column", [i \in 1..(MaxCol + 1) |-> f[i - 1]]>>

nesting(f) == <<"Nesting", [i \in 1..(MaxCol + 1) |-> f[i - 1]]>>

(* The annotation payload is the unit value; the node is told by its path. *)
annotate(this) == <<"Annotated", this>>

(* as_string: the decimal digits of n. *)
Digits == <<"0", "1", "2", "3", "4", "5", "6", "7", "8", "9">>

RECURSIVE DecimalOf(_)
DecimalOf(n) ==
    IF n < 10 THEN <<Digits[n + 1]>> ELSE DecimalOf(n \div 10) \o <<Digits[(n % 10) + 1]>>

as_string(n) == text(DecimalOf(n))

Tag(d) == d[1]

(* The i-th subdocument of a node. *)
Child(d, i) ==
    CASE Tag(d) = "Append" -> d[i + 1]
      [] Tag(d) = "FlatAlt" -> d[i + 1]
      [] Tag(d) = "Union" -> d[i + 1]
      [] Tag(d) = "Group" -> d[2]
      [] Tag(d) = "Nest" -> d[3]
      [] Tag(d) = "Annotated" -> d[2]
      [] Tag(d) = "Column" -> d[2][i]
      [] Tag(d) = "Nesting" -> d[2][i]

Arity(d) ==
    CASE Tag(d) \in {"Append", "FlatAlt", "Union"} -> 2
      [] Tag(d) \in {"Group", "Nest", "Annotated"} -> 1
      [] Tag(d) \in {"Column", "Nesting"} -> Len(d[2])
      [] OTHER -> 0

(* Dereference: the node of document d at path p.  The node reached so far
   is bound as a value (n), so that it is computed once per step. *)
RECURSIVE Sub(_, _)
Sub(d, p) ==
    IF p = <<>> THEN d
    ELSE CHOOSE r \in { Sub(Child(n, Head(p)), Tail(p)) : n \in {d} } : TRUE

(* All references into document d. *)
RECURSIVE Paths(_)
Paths(d) ==
    {<<>>} \cup UNION { { <<i>> \o p : p \in Paths(Child(d, i)) } : i \in 1..Arity(d) }

At(p) == Sub(doc, p)

(* A command (indent, mode, &doc). *)
Cmd(ind, mode, p) == [ind |-> ind, mode |-> mode, doc |-> p]

(* The pop-annotation marker pushed under an annotated subdocument: a
   command kind of its own, kept with the path of its Annotated node. *)
PopAnnotation == "PopAnnotation"

Marker(p) == Cmd(0, PopAnnotation, p)

(* u64::MAX, and the cast `x as i64` of a u64. *)
u64_MAX == 2 ^ IntBits - 1

as_i64(x) == IF x >= 2 ^ (IntBits - 1) THEN x - 2 ^ IntBits ELSE x

(* util::string::nl_spaces: a newline followed by n spaces. *)
nl_spaces(n) == <<"\n">> \o [i \in 1..n |-> " "]

(***************************************************************************)
(* fitting: the fit test.  Each arm maps the popped command c, the scratch *)
(* stack fc left after the pop, the budget rem and the flag fits to their  *)
(* values after the arm.                                                   *)
(***************************************************************************)
FitState(fc, rem, fits) == [fcmds |-> fc, rem |-> rem, fits |-> fits]

(* FitNil that charges one column for a Nil. *)
FitNil_charge(c, fc, rem, fits) == FitState(fc, rem - 1, fits)

FitNil(c, fc, rem, fits) == FitState(fc, rem, fits)

FitAppend(c, fc, rem, fits) ==
    FitState(Push(Push(fc, Cmd(c.ind, c.mode, c.doc \o <<2>>)),
                  Cmd(c.ind, c.mode, c.doc \o <<1>>)), rem, fits)

FitGroup(c, fc, rem, fits) ==
    FitState(Push(fc, Cmd(c.ind, c.mode, c.doc \o <<1>>)), rem, fits)

(* ind + off on u64: the sum as a build without overflow checks gives it. *)
FitNest(c, fc, rem, fits) ==
    FitState(Push(fc, Cmd((c.ind + At(c.doc)[2]) % 2 ^ IntBits, c.mode, c.doc \o <<1>>)),
             rem, fits)

(* The loop goes on after a Newline: the arm only sets fits. *)
FitNewline(c, fc, rem, fits) == FitState(fc, rem, TRUE)

(* FitText that does not charge the text to the budget. *)
FitText_noCharge(c, fc, rem, fits) == FitState(fc, rem, fits)

FitText(c, fc, rem, fits) == FitState(fc, rem - Len(At(c.doc)[2]), fits)

(* FlatAlt in the fit test: b in Flat mode, a in Break mode. *)
FitFlatAlt(c, fc, rem, fits) ==
    FitState(Push(fc, Cmd(c.ind, c.mode,
                          c.doc \o (IF c.mode = Flat THEN <<2>> ELSE <<1>>))),
             rem, fits)

(* Union in the fit test: the wide alternative a. *)
FitUnion(c, fc, rem, fits) ==
    FitState(Push(fc, Cmd(c.ind, c.mode, c.doc \o <<1>>)), rem, fits)

(* Column in the fit test: the closure at the column the test starts at. *)
FitColumn(c, fc, rem, fits) ==
    FitState(Push(fc, Cmd(c.ind, c.mode, c.doc \o <<pos + 1>>)), rem, fits)

(* Nesting in the fit test: the closure at the current indent. *)
FitNesting(c, fc, rem, fits) ==
    FitState(Push(fc, Cmd(c.ind, c.mode, c.doc \o <<c.ind + 1>>)), rem, fits)

(* Annotations in the fit test: the subdocument is measured, the marker is
   a no-op and the sink is not called. *)
FitAnnotated(c, fc, rem, fits) ==
    IF c.mode = PopAnnotation
    THEN FitState(fc, rem, fits)
    ELSE FitState(Push(fc, Cmd(c.ind, c.mode, c.doc \o <<1>>)), rem, fits)

FitArm(c, fc, rem, fits) ==
    CASE Tag(At(c.doc)) = "Nil" -> FitNil(c, fc, rem, fits)
      [] Tag(At(c.doc)) = "Append" -> FitAppend(c, fc, rem, fits)
      [] Tag(At(c.doc)) = "Group" -> FitGroup(c, fc, rem, fits)
      [] Tag(At(c.doc)) = "Nest" -> FitNest(c, fc, rem, fits)
      [] Tag(At(c.doc)) = "Line" -> FitNewline(c, fc, rem, fits)
      [] Tag(At(c.doc)) = "Text" -> FitText(c, fc, rem, fits)
      [] Tag(At(c.doc)) = "FlatAlt" -> FitFlatAlt(c, fc, rem, fits)
      [] Tag(At(c.doc)) = "Union" -> FitUnion(c, fc, rem, fits)
      [] Tag(At(c.doc)) = "Column" -> FitColumn(c, fc, rem, fits)
      [] Tag(At(c.doc)) = "Nesting" -> FitNesting(c, fc, rem, fits)
      [] Tag(At(c.doc)) = "Annotated" -> FitAnnotated(c, fc, rem, fits)

(* FitLoop returning true as soon as it pops a Newline. *)
RECURSIVE FitLoop_lineFits(_, _, _, _, _)
FitLoop_lineFits(bc, fc, bidx, rem, fits) ==
    IF rem < 0 THEN [fits |-> FALSE, fcmds |-> fc]
    ELSE IF fc = <<>>
         THEN IF bidx = 0
              THEN [fits |-> fits, fcmds |-> fc]
              ELSE FitLoop_lineFits(bc, Push(fc, bc[bidx]), bidx - 1, rem, fits)
         ELSE IF Tag(At(Top(fc).doc)) = "Line"
              THEN [fits |-> TRUE, fcmds |-> Pop(fc)]
              ELSE CHOOSE r \in { FitLoop_lineFits(bc, s.fcmds, bidx, s.rem, s.fits) :
                                 s \in {FitArm(Top(fc), Pop(fc), rem, fits)} } : TRUE

(* The loop of fitting; bidx counts the commands of bc not yet read.  The
   state after an arm is bound as a value (s), computed once per iteration. *)
RECURSIVE FitLoop(_, _, _, _, _)
FitLoop(bc, fc, bidx, rem, fits) ==
    IF rem < 0 THEN [fits |-> FALSE, fcmds |-> fc]
    ELSE IF fc = <<>>
         THEN IF bidx = 0
              THEN [fits |-> fits, fcmds |-> fc]
              ELSE FitLoop(bc, Push(fc, bc[bidx]), bidx - 1, rem, fits)
         ELSE CHOOSE r \in { FitLoop(bc, s.fcmds, bidx, s.rem, s.fits) :
                            s \in {FitArm(Top(fc), Pop(fc), rem, fits)} } : TRUE

(* fitting that measures the seed alone and never reads bcmds. *)
fitting_seedOnly(next, bc, fc, rem) == FitLoop(bc, <<next>>, 0, rem, TRUE)

(* fitting that looks ahead at the top command of bcmds only. *)
fitting_oneAhead(next, bc, fc, rem) ==
    FitLoop(IF bc = <<>> THEN bc ELSE <<Top(bc)>>, <<next>>,
            IF bc = <<>> THEN 0 ELSE 1, rem, TRUE)

(* fitting that does not clear the scratch stack it is handed. *)
fitting_noClear(next, bc, fc, rem) == FitLoop(bc, Push(fc, next), Len(bc), rem, TRUE)

(* fitting(next, &bcmds, &mut fcmds, rem): the result and the scratch stack
   it leaves behind.  The scratch stack it is handed is cleared first. *)
fitting(next, bc, fc, rem) == FitLoop(bc, <<next>>, Len(bc), rem, TRUE)

(***************************************************************************)
(* best: the main loop, one action per arm of the match on the popped      *)
(* command.                                                                *)
(***************************************************************************)
(* The errors a write to the sink may return. *)
IoErrors == {"EndOfFile", "OtherIoError"}

(* A call of push_annotation or pop_annotation: the Annotated node it is
   for and the number of characters written before it. *)
AnnCall(op, p, at) == [op |-> op, node |-> p, at |-> at]

(* Running that does not look at res. *)
Running_ignoreRes == pc = "loop" /\ bcmds # <<>>

Running == pc = "loop" /\ res = "ok" /\ bcmds # <<>>

Popped(tag) == Running /\ Tag(At(Top(bcmds).doc)) = tag

BestNil ==
    /\ Popped("Nil")
    /\ bcmds' = Pop(bcmds)
    /\ hist' = Push(hist, Top(bcmds))
    /\ UNCHANGED <<doc, width, res, anns, pos, fcmds, out, pc, flatLine>>

(* BestAppend that pushes the right operand in Break mode. *)
BestAppend_breakRight ==
    /\ Popped("Append")
    /\ LET c == Top(bcmds)
       IN  bcmds' = Push(Push(Pop(bcmds), Cmd(c.ind, Break, c.doc \o <<2>>)),
                         Cmd(c.ind, c.mode, c.doc \o <<1>>))
    /\ hist' = Push(hist, Top(bcmds))
    /\ UNCHANGED <<doc, width, res, anns, pos, fcmds, out, pc, flatLine>>

(* BestAppend that pushes the left operand first. *)
BestAppend_leftFirst ==
    /\ Popped("Append")
    /\ LET c == Top(bcmds)
       IN  bcmds' = Push(Push(Pop(bcmds), Cmd(c.ind, c.mode, c.doc \o <<1>>)),
                         Cmd(c.ind, c.mode, c.doc \o <<2>>))
    /\ hist' = Push(hist, Top(bcmds))
    /\ UNCHANGED <<doc, width, res, anns, pos, fcmds, out, pc, flatLine>>

BestAppend ==
    /\ Popped("Append")
    /\ LET c == Top(bcmds)
       IN  bcmds' = Push(Push(Pop(bcmds), Cmd(c.ind, c.mode, c.doc \o <<2>>)),
                         Cmd(c.ind, c.mode, c.doc \o <<1>>))
    /\ hist' = Push(hist, Top(bcmds))
    /\ UNCHANGED <<doc, width, res, anns, pos, fcmds, out, pc, flatLine>>

(* BestGroupFlat that pushes the group itself again. *)
BestGroupFlat_repush ==
    /\ Popped("Group")
    /\ Top(bcmds).mode = Flat
    /\ LET c == Top(bcmds)
       IN  bcmds' = Push(Pop(bcmds), Cmd(c.ind, Flat, c.doc))
    /\ hist' = Push(hist, Top(bcmds))
    /\ UNCHANGED <<doc, width, res, anns, pos, fcmds, out, pc, flatLine>>

BestGroupFlat ==
    /\ Popped("Group")
    /\ Top(bcmds).mode = Flat
    /\ LET c == Top(bcmds)
       IN  bcmds' = Push(Pop(bcmds), Cmd(c.ind, Flat, c.doc \o <<1>>))
    /\ hist' = Push(hist, Top(bcmds))
    /\ UNCHANGED <<doc, width, res, anns, pos, fcmds, out, pc, flatLine>>

(* BestGroupBreak with the budget taken as the whole page width. *)
BestGroupBreak_ignorePos ==
    /\ Popped("Group")
    /\ Top(bcmds).mode = Break
    /\ LET c == Top(bcmds)
           next == Cmd(c.ind, Flat, c.doc \o <<1>>)
           rem == width
           f == fitting(next, Pop(bcmds), fcmds, rem)
       IN  /\ fcmds' = f.fcmds
           /\ bcmds' = IF f.fits
                       THEN Push(Pop(bcmds), next)
                       ELSE Push(Pop(bcmds), Cmd(c.ind, Break, c.doc \o <<1>>))
           /\ flatLine' = (flatLine \/ f.fits)
    /\ hist' = Push(hist, Top(bcmds))
    /\ UNCHANGED <<doc, width, res, anns, pos, out, pc>>

BestGroupBreak ==
    /\ Popped("Group")
    /\ Top(bcmds).mode = Break
    /\ LET c == Top(bcmds)
           next == Cmd(c.ind, Flat, c.doc \o <<1>>)
           rem == as_i64(width) - as_i64(pos)
           f == fitting(next, Pop(bcmds), fcmds, rem)
       IN  /\ fcmds' = f.fcmds
           /\ bcmds' = IF f.fits
                       THEN Push(Pop(bcmds), next)
                       ELSE Push(Pop(bcmds), Cmd(c.ind, Break, c.doc \o <<1>>))
           /\ flatLine' = (flatLine \/ f.fits)
    /\ hist' = Push(hist, Top(bcmds))
    /\ UNCHANGED <<doc, width, res, anns, pos, out, pc>>

(* BestNest that forgets to add the offset. *)
BestNest_keepIndent ==
    /\ Popped("Nest")
    /\ LET c == Top(bcmds)
       IN  bcmds' = Push(Pop(bcmds), Cmd(c.ind, c.mode, c.doc \o <<1>>))
    /\ hist' = Push(hist, Top(bcmds))
    /\ UNCHANGED <<doc, width, res, anns, pos, fcmds, out, pc, flatLine>>

(* ind + off on u64, unsigned and unchecked: a build without overflow
   checks wraps the sum around 2^64. *)
BestNest ==
    /\ Popped("Nest")
    /\ LET c == Top(bcmds)
       IN  bcmds' = Push(Pop(bcmds),
                         Cmd((c.ind + At(c.doc)[2]) % 2 ^ IntBits, c.mode, c.doc \o <<1>>))
    /\ hist' = Push(hist, Top(bcmds))
    /\ UNCHANGED <<doc, width, res, anns, pos, fcmds, out, pc, flatLine>>

(* The same arm in a build with overflow checks: a sum past u64::MAX
   panics, and best unwinds with the command popped. *)
BestNestPanic ==
    /\ Popped("Nest")
    /\ Top(bcmds).ind + At(Top(bcmds).doc)[2] > u64_MAX
    /\ bcmds' = Pop(bcmds)
    /\ pc' = "panic"
    /\ hist' = Push(hist, Top(bcmds))
    /\ UNCHANGED <<doc, width, res, anns, pos, fcmds, out, flatLine>>

(* BestNewline that writes a space for a Newline met in Flat mode. *)
BestNewline_flatSpace ==
    /\ Popped("Line")
    /\ bcmds' = Pop(bcmds)
    /\ out' = IF Top(bcmds).mode = Flat
              THEN out \o <<" ">>
              ELSE out \o nl_spaces(Top(bcmds).ind)
    /\ res' = "ok"
    /\ pos' = IF Top(bcmds).mode = Flat THEN pos + 1 ELSE Top(bcmds).ind
    /\ hist' = Push(hist, Top(bcmds))
    /\ flatLine' = (flatLine /\ Top(bcmds).mode = Flat)
    /\ UNCHANGED <<doc, width, anns, fcmds, pc>>

(* BestNewline that skips a Newline met in Flat mode. *)
BestNewline_flatSkip ==
    /\ Popped("Line")
    /\ bcmds' = Pop(bcmds)
    /\ out' = IF Top(bcmds).mode = Flat THEN out ELSE out \o nl_spaces(Top(bcmds).ind)
    /\ res' = "ok"
    /\ pos' = IF Top(bcmds).mode = Flat THEN pos ELSE Top(bcmds).ind
    /\ hist' = Push(hist, Top(bcmds))
    /\ flatLine' = (flatLine /\ Top(bcmds).mode = Flat)
    /\ UNCHANGED <<doc, width, anns, fcmds, pc>>

(* BestNewline that sets pos to 0, the column before the indentation. *)
BestNewline_posZero ==
    /\ Popped("Line")
    /\ bcmds' = Pop(bcmds)
    /\ out' = out \o nl_spaces(Top(bcmds).ind)
    /\ res' = "ok"
    /\ pos' = 0
    /\ hist' = Push(hist, Top(bcmds))
    /\ flatLine' = FALSE
    /\ UNCHANGED <<doc, width, anns, fcmds, pc>>

BestNewline ==
    /\ Popped("Line")
    /\ bcmds' = Pop(bcmds)
    /\ out' = out \o nl_spaces(Top(bcmds).ind)
    /\ res' = "ok"
    /\ pos' = Top(bcmds).ind
    /\ hist' = Push(hist, Top(bcmds))
    /\ flatLine' = FALSE
    /\ UNCHANGED <<doc, width, anns, fcmds, pc>>

(* The Newline arm when the sink fails the write: nothing is written, the
   error is kept in res and pos is set all the same. *)
BestNewlineFail ==
    /\ Popped("Line")
    /\ bcmds' = Pop(bcmds)
    /\ \E e \in IoErrors : res' = e
    /\ pos' = Top(bcmds).ind
    /\ hist' = Push(hist, Top(bcmds))
    /\ flatLine' = FALSE
    /\ UNCHANGED <<doc, width, out, anns, fcmds, pc>>

(* BestText that drops a text starting at or past the page width. *)
BestText_clip ==
    /\ Popped("Text")
    /\ bcmds' = Pop(bcmds)
    /\ out' = IF pos >= width THEN out ELSE out \o At(Top(bcmds).doc)[2]
    /\ res' = "ok"
    /\ pos' = pos + Len(At(Top(bcmds).doc)[2])
    /\ hist' = Push(hist, Top(bcmds))
    /\ UNCHANGED <<doc, width, anns, fcmds, pc, flatLine>>

(* BestText that leaves pos where it was. *)
BestText_noAdvance ==
    /\ Popped("Text")
    /\ bcmds' = Pop(bcmds)
    /\ out' = out \o At(Top(bcmds).doc)[2]
    /\ res' = "ok"
    /\ hist' = Push(hist, Top(bcmds))
    /\ UNCHANGED <<doc, width, anns, pos, fcmds, pc, flatLine>>

BestText ==
    /\ Popped("Text")
    /\ bcmds' = Pop(bcmds)
    /\ out' = out \o At(Top(bcmds).doc)[2]
    /\ res' = "ok"
    /\ pos' = pos + Len(At(Top(bcmds).doc)[2])
    /\ hist' = Push(hist, Top(bcmds))
    /\ UNCHANGED <<doc, width, anns, fcmds, pc, flatLine>>

(* The Text arm when the sink fails the write. *)
BestTextFail ==
    /\ Popped("Text")
    /\ bcmds' = Pop(bcmds)
    /\ \E e \in IoErrors : res' = e
    /\ pos' = pos + Len(At(Top(bcmds).doc)[2])
    /\ hist' = Push(hist, Top(bcmds))
    /\ UNCHANGED <<doc, width, out, anns, fcmds, pc, flatLine>>

(* FlatAlt in the main loop: b in Flat mode, a in Break mode. *)
BestFlatAlt ==
    /\ Popped("FlatAlt")
    /\ LET c == Top(bcmds)
       IN  bcmds' = Push(Pop(bcmds),
                         Cmd(c.ind, c.mode,
                             c.doc \o (IF c.mode = Flat THEN <<2>> ELSE <<1>>)))
    /\ hist' = Push(hist, Top(bcmds))
    /\ UNCHANGED <<doc, width, res, anns, pos, fcmds, out, pc, flatLine>>

(* Union in the main loop: a in Flat mode; in Break mode a when the fit
   test of (indent, Flat, a) succeeds, b otherwise, in the current mode. *)
BestUnion ==
    /\ Popped("Union")
    /\ LET c == Top(bcmds)
           rem == width - pos
           f == fitting(Cmd(c.ind, Flat, c.doc \o <<1>>), Pop(bcmds), fcmds, rem)
       IN  IF c.mode = Flat
           THEN /\ bcmds' = Push(Pop(bcmds), Cmd(c.ind, Flat, c.doc \o <<1>>))
                /\ fcmds' = fcmds
           ELSE /\ bcmds' = Push(Pop(bcmds),
                                 Cmd(c.ind, c.mode,
                                     c.doc \o (IF f.fits THEN <<1>> ELSE <<2>>)))
                /\ fcmds' = f.fcmds
    /\ hist' = Push(hist, Top(bcmds))
    /\ UNCHANGED <<doc, width, res, anns, pos, out, pc, flatLine>>

(* Column in the main loop: the closure at the current column. *)
BestColumn ==
    /\ Popped("Column")
    /\ LET c == Top(bcmds)
       IN  bcmds' = Push(Pop(bcmds), Cmd(c.ind, c.mode, c.doc \o <<pos + 1>>))
    /\ hist' = Push(hist, Top(bcmds))
    /\ UNCHANGED <<doc, width, res, anns, pos, fcmds, out, pc, flatLine>>

(* Nesting in the main loop: the closure at the current indent. *)
BestNesting ==
    /\ Popped("Nesting")
    /\ LET c == Top(bcmds)
       IN  bcmds' = Push(Pop(bcmds), Cmd(c.ind, c.mode, c.doc \o <<c.ind + 1>>))
    /\ hist' = Push(hist, Top(bcmds))
    /\ UNCHANGED <<doc, width, res, anns, pos, fcmds, out, pc, flatLine>>

(* BestAnnotated that pushes the marker above the subdocument. *)
BestAnnotated_markerOnTop ==
    /\ Popped("Annotated")
    /\ Top(bcmds).mode # PopAnnotation
    /\ LET c == Top(bcmds)
       IN  bcmds' = Push(Push(Pop(bcmds), Cmd(c.ind, c.mode, c.doc \o <<1>>)),
                         Marker(c.doc))
    /\ anns' = Push(anns, AnnCall("push", Top(bcmds).doc, Len(out)))
    /\ hist' = Push(hist, Top(bcmds))
    /\ UNCHANGED <<doc, width, res, pos, fcmds, out, pc, flatLine>>

(* Annotated in the main loop: push_annotation, then the marker is pushed
   under the subdocument. *)
BestAnnotated ==
    /\ Popped("Annotated")
    /\ Top(bcmds).mode # PopAnnotation
    /\ LET c == Top(bcmds)
       IN  bcmds' = Push(Push(Pop(bcmds), Marker(c.doc)),
                         Cmd(c.ind, c.mode, c.doc \o <<1>>))
    /\ anns' = Push(anns, AnnCall("push", Top(bcmds).doc, Len(out)))
    /\ hist' = Push(hist, Top(bcmds))
    /\ UNCHANGED <<doc, width, res, pos, fcmds, out, pc, flatLine>>

(* The marker in the main loop: pop_annotation. *)
BestPopAnnotation ==
    /\ Popped("Annotated")
    /\ Top(bcmds).mode = PopAnnotation
    /\ bcmds' = Pop(bcmds)
    /\ anns' = Push(anns, AnnCall("pop", Top(bcmds).doc, Len(out)))
    /\ hist' = Push(hist, Top(bcmds))
    /\ UNCHANGED <<doc, width, res, pos, fcmds, out, pc, flatLine>>

(* The loop ends when bcmds.pop() gives None or res is an error, and best
   returns res. *)
BestDone ==
    /\ pc = "loop"
    /\ (bcmds = <<>> \/ res # "ok")
    /\ pc' = "done"
    /\ UNCHANGED <<doc, width, res, anns, pos, bcmds, fcmds, out, hist, flatLine>>

(***************************************************************************)
(* best as a function: the characters best(doc, w, out) writes for the     *)
(* subdocument at path p taken as the document, into a sink that never     *)
(* fails.  BestLoop runs the main loop from the stacks bc and fc, the       *)
(* column ps and the output o.                                             *)
(***************************************************************************)
RECURSIVE BestLoop(_, _, _, _, _)
BestLoop(bc, fc, ps, o, w) ==
    IF bc = <<>> THEN o
    ELSE LET c == Top(bc)
             r == Pop(bc)
             d == At(c.doc)
             sub(i) == Cmd(c.ind, c.mode, c.doc \o <<i>>)
             flat == Cmd(c.ind, Flat, c.doc \o <<1>>)
             f == fitting(flat, r, fc, as_i64(w) - as_i64(ps))
             u == fitting(flat, r, fc, w - ps)
         IN  CASE Tag(d) = "Nil" -> BestLoop(r, fc, ps, o, w)
               [] Tag(d) = "Append" -> BestLoop(Push(Push(r, sub(2)), sub(1)), fc, ps, o, w)
               [] Tag(d) = "Group" ->
                    IF c.mode = Flat
                    THEN BestLoop(Push(r, flat), fc, ps, o, w)
                    ELSE BestLoop(Push(r, IF f.fits THEN flat ELSE sub(1)), f.fcmds, ps, o, w)
               [] Tag(d) = "Nest" ->
                    BestLoop(Push(r, Cmd((c.ind + d[2]) % 2 ^ IntBits, c.mode, c.doc \o <<1>>)),
                             fc, ps, o, w)
               [] Tag(d) = "Line" -> BestLoop(r, fc, c.ind, o \o nl_spaces(c.ind), w)
               [] Tag(d) = "Text" -> BestLoop(r, fc, ps + Len(d[2]), o \o d[2], w)
               [] Tag(d) = "FlatAlt" ->
                    BestLoop(Push(r, sub(IF c.mode = Flat THEN 2 ELSE 1)), fc, ps, o, w)
               [] Tag(d) = "Union" ->
                    IF c.mode = Flat
                    THEN BestLoop(Push(r, flat), fc, ps, o, w)
                    ELSE BestLoop(Push(r, sub(IF u.fits THEN 1 ELSE 2)), u.fcmds, ps, o, w)
               [] Tag(d) = "Column" -> BestLoop(Push(r, sub(ps + 1)), fc, ps, o, w)
               [] Tag(d) = "Nesting" -> BestLoop(Push(r, sub(c.ind + 1)), fc, ps, o, w)
               [] Tag(d) = "Annotated" ->
                    IF c.mode = PopAnnotation
                    THEN BestLoop(r, fc, ps, o, w)
                    ELSE BestLoop(Push(Push(r, Marker(c.doc)), sub(1)), fc, ps, o, w)

best(p, w) == BestLoop(<<Cmd(0, Break, p)>>, <<>>, 0, <<>>, w)

(***************************************************************************)
(* The documents and widths rendered.                                      *)
(***************************************************************************)
Chars(n) == [i \in 1..n |-> "a"]

Gen0 == {nil, hardline, line, line_} \cup { text(Chars(n)) : n \in 1..MaxTextLen }

Layer(S) ==
    S \cup { append(x, y) : x \in S, y \in S }
      \cup { group(x) : x \in S }
      \cup { nest(k, x) : k \in 1..MaxNest, x \in S }

Gen1 == Layer(Gen0)

Gen2 == Layer(Gen1)

(* A group of three items, nested or not, followed by two items. *)
GenSeq ==
    { append(group(g), append(u, v)) :
        g \in UNION { { append(x, append(y, z)), nest(1, append(x, append(y, z))) } :
                        x \in Gen0, y \in Gen0, z \in Gen0 },
        u \in {line, hardline, text(Chars(1))},
        v \in {text(Chars(1)), text(Chars(2)), group(line)} }

(* Append nodes with a Nil operand, as no builder makes them. *)
GenNil == UNION { { <<"Append", Nil, d>>, <<"Append", d, Nil>> } : d \in Gen1 }

(* Both ways of appending three documents, side by side. *)
AssocItems ==
    { hardline, line, text(Chars(1)), text(Chars(MaxTextLen)), group(line),
      group(append(text(Chars(1)), line_)) }

AssocPair(a, b, c) == <<"Append", append(append(a, b), c), append(a, append(b, c))>>

GenAssoc == { AssocPair(a, b, c) : a \in AssocItems, b \in AssocItems, c \in AssocItems }

(* Closures met at several columns and indents, inside and outside groups. *)
GenFn ==
    UNION { { append(x, append(y, column([c \in 0..MaxCol |-> as_string(c)]))),
              append(x, group(append(column([c \in 0..MaxCol |-> text(Chars(c))]), y))),
              nest(1, append(x, append(y, nesting([n \in 0..MaxCol |-> as_string(n)])))),
              append(x, group(nest(1, append(nesting([n \in 0..MaxCol |-> text(Chars(n))]), y)))) } :
            x \in Gen0 \ {nil}, y \in Gen0 }

(* Annotated subdocuments inside, around and across groups. *)
GenAnn ==
    UNION { { append(annotate(x), y),
              annotate(group(append(x, y))),
              group(append(annotate(append(x, annotate(y))), text(Chars(1)))),
              append(group(annotate(x)), annotate(append(group(y), hardline))) } :
            x \in Gen0, y \in Gen0 }

GenDocs == Gen2 \cup GenSeq \cup GenNil \cup GenAssoc \cup GenFn \cup GenAnn

(***************************************************************************)
(* The documents of the tests and doc comments of lib.rs.                  *)
(***************************************************************************)
Str_test == <<"t", "e", "s", "t">>
Str_let == <<"l", "e", "t">>
Str_in == <<"i", "n">>
Str_digits == <<"1", "2", "3", "4", "5", "6", "7", "8", "9", "0">>

(* tests::box_doc_inference, tests::usize_max_value *)
box_doc == group(append(append(text(Str_test), line), text(Str_test)))

(* tests::forced_newline *)
forced_newline == group(append(append(text(Str_test), hardline), text(Str_test)))

(* tests::space_do_not_reset_pos *)
space_do_not_reset_pos ==
    append(append(group(append(text(Str_test), line)), text(Str_test)),
           append(group(line), text(Str_test)))

(* tests::newline_does_not_cause_next_line_to_be_to_long *)
newline_too_long ==
    group(append(append(text(Str_test), hardline),
                 append(append(text(Str_test), line), text(Str_test))))

(* the same with the trailing part grouped *)
newline_inner_group ==
    group(append(append(text(Str_test), hardline),
                 group(append(append(text(Str_test), line), text(Str_test)))))

(* tests::newline_after_group_does_not_affect_it *)
x_line_y == group(append(append(text(<<"x">>), line), text(<<"y">>)))

newline_after_group == append(x_line_y, hardline)

(* the same followed by further text *)
newline_after_group_text == append(append(x_line_y, hardline), text(Str_digits))

(* tests::block *)
block ==
    group(append(append(append(text(<<"{">>),
                               nest(2, append(append(append(line, text(Str_test)), line),
                                              text(Str_test)))),
                        line),
                 text(<<"}">>)))

(* the quick start of the crate documentation: the list (1 2 3) *)
sexp ==
    append(append(text(<<"(">>),
                  group(nest(1, append(append(append(append(text(<<"1">>), line),
                                                     text(<<"2">>)), line),
                                       text(<<"3">>))))),
           text(<<")">>))

(* DocAllocator::line_ *)
line__doc ==
    group(append(append(append(text(<<"(">>),
                               nest(2, append(append(append(line_, text(Str_test)), line),
                                              text(Str_test)))),
                        line_),
                 text(<<")">>)))

(* DocBuilder::flat_alt *)
flat_alt_body == append(line, text(<<"x">>))

flat_alt_doc ==
    group(append(group(append(append(text(Str_let), line), text(<<"x">>))),
                 flat_alt(flat_alt_body,
                          append(append(line, text(Str_in)), flat_alt_body))))

(* tests::union *)
union_arg == text(<<"(">>)

union_tuple(l) ==
    append(append(nest(2, append(append(append(l, group(append(text(<<"x">>), text(<<",">>)))),
                                        line),
                                 group(append(text(Str_digits), text(<<",">>))))),
                  line_),
           text(<<")">>))

union_from ==
    group(append(append(append(append(text(Str_let), line), text(<<"x">>)), line),
                 text(<<"=">>)))

union_single ==
    group(append(group(append(append(union_from, line), union_arg)), union_tuple(line_)))

union_hang ==
    group(append(group(append(append(union_from, line), union_arg)), union_tuple(hardline)))

union_break_all ==
    nest(2, group(append(append(append(union_from, line), union_arg), union_tuple(line))))

union_doc == group(union(union_single, union(union_hang, union_break_all)))

(* DocAllocator::column *)
Str_prefix == <<"p", "r", "e", "f", "i", "x", " ">>
Str_column == <<"|", " ", "<", "-", " ", "c", "o", "l", "u", "m", "n", " ">>

column_doc ==
    append(text(Str_prefix),
           column([l \in 0..MaxCol |-> append(text(Str_column), as_string(l))]))

(* DocAllocator::nesting *)
Str_nested == <<"[", "N", "e", "s", "t", "e", "d", ":", " ">>

nesting_doc ==
    append(text(Str_prefix),
           nest(4, nesting([l \in 0..MaxCol |->
                              append(append(text(Str_nested), as_string(l)), text(<<"]">>))])))

(* tests::annotation_no_panic *)
annotation_no_panic ==
    group(append(annotate(append(annotate(text(Str_test)), hardline)), text(Str_test)))

TestDocs ==
    { box_doc, forced_newline, space_do_not_reset_pos, newline_too_long,
      newline_inner_group, newline_after_group, newline_after_group_text,
      block, sexp, line__doc, flat_alt_doc, union_doc,
      column_doc, nesting_doc, annotation_no_panic }

TestWidths == {5, 6, 8, 9, 10, 14, DefaultTestWidth, 80, 100}

(* The widths around the wrap of `as i64`: i64::MAX, i64::MAX + 1 and
   u64::MAX. *)
WrapWidths == {2 ^ (IntBits - 1) - 1, 2 ^ (IntBits - 1), u64_MAX}

(* The state of best before its loop. *)
Start ==
    /\ pos = 0
    /\ bcmds = <<Cmd(0, Break, <<>>)>>
    /\ fcmds = <<>>
    /\ out = <<>>
    /\ res = "ok"
    /\ anns = <<>>
    /\ pc = "loop"
    /\ hist = <<>>
    /\ flatLine = FALSE

Init ==
    /\ \/ doc \in GenDocs /\ width \in 0..MaxWidth
       \/ doc \in TestDocs /\ width \in (0..MaxWidth) \cup TestWidths
    /\ Start

Next ==
    \/ BestNil
    \/ BestAppend
    \/ BestGroupFlat
    \/ BestGroupBreak
    \/ BestNest
    \/ BestNewline
    \/ BestText
    \/ BestFlatAlt
    \/ BestUnion
    \/ BestColumn
    \/ BestNesting
    \/ BestAnnotated
    \/ BestPopAnnotation
    \/ BestDone

Spec == Init /\ [][Next]_vars

(* best at the widths around the wrap of the cast. *)
InitMax ==
    /\ doc \in Gen1 \cup GenFn \cup GenAnn \cup TestDocs
    /\ width \in WrapWidths
    /\ Start

SpecMax == InitMax /\ [][Next]_vars

(* best writing into a sink that may fail any write. *)
InitSink ==
    /\ \/ doc \in Gen1 \cup GenFn \cup GenAnn /\ width \in 0..MaxWidth
       \/ doc \in TestDocs /\ width \in (0..MaxWidth) \cup {DefaultTestWidth}
    /\ Start

NextSink ==
    \/ Next
    \/ BestNewlineFail
    \/ BestTextFail

SpecSink == InitSink /\ [][NextSink]_vars

(* The same with the loop of best running on: a call of best is one
   synchronous run and nothing in it waits. *)
SpecLive == SpecSink /\ WF_vars(NextSink)

(* Documents whose offsets add up to u64::MAX and past it.  The Nest nodes
   lie outside every group, so that no fit test adds past u64::MAX. *)
NestDocs ==
    { nest(k1, nest(k2, append(x, append(hardline, text(Chars(1)))))) :
          k1 \in {u64_MAX - 1, u64_MAX}, k2 \in 0..(MaxNest + 1),
          x \in {nil, text(Chars(1)), group(line)} }

(* best on these documents, in a build with or without overflow checks. *)
InitNest ==
    /\ \/ doc \in NestDocs /\ width \in 0..MaxWidth
       \/ doc \in TestDocs /\ width = DefaultTestWidth
    /\ Start

NextNest ==
    \/ Next
    \/ BestNestPanic

SpecNest == InitNest /\ [][NextNest]_vars

(***************************************************************************)
(* Vocabulary of the properties.                                           *)
(***************************************************************************)
Str(d) == d[2]

IsTag(p, tag) == Tag(At(p)) = tag

(* The command the main loop popped last, and the one before it. *)
Last == Top(hist)
Prev == hist[Len(hist) - 1]

(* The proper prefixes of a reference: the nodes that enclose it. *)
Enclosing(p) == { SubSeq(p, 1, n) : n \in 0..(Len(p) - 1) }

(* A soft break: line or line_, a FlatAlt whose Break alternative is Line. *)
IsSoft(p) == IsTag(p, "FlatAlt") /\ IsTag(p \o <<1>>, "Line")

(* g is the group p belongs to directly: the innermost group enclosing p. *)
Owns(g, p) ==
    /\ g \in Enclosing(p)
    /\ IsTag(g, "Group")
    /\ \A q \in Enclosing(p) : (Len(q) > Len(g)) => ~IsTag(q, "Group")

(* p is a hard line of the document: a Line outside every FlatAlt. *)
IsHard(p) == IsTag(p, "Line") /\ \A q \in Enclosing(p) : ~IsTag(q, "FlatAlt")

(* p lies inside group g and only Append, Nest and Group lie between. *)
PlainlyInside(g, p) ==
    /\ g \in Enclosing(p)
    /\ \A q \in Enclosing(p) :
          (Len(q) >= Len(g)) => Tag(At(q)) \in {"Append", "Nest", "Group"}

(* p comes before q in document order; neither encloses the other. *)
RECURSIVE Before(_, _)
Before(p, q) ==
    /\ p # <<>>
    /\ q # <<>>
    /\ IF Head(p) = Head(q) THEN Before(Tail(p), Tail(q)) ELSE Head(p) < Head(q)

(* The width of d laid out flat: FlatAlt gives b, Union gives a. *)
RECURSIVE FlatW(_)
FlatW(d) ==
    CASE Tag(d) = "Text" -> Len(Str(d))
      [] Tag(d) = "Append" -> FlatW(d[2]) + FlatW(d[3])
      [] Tag(d) = "Group" -> FlatW(d[2])
      [] Tag(d) = "Nest" -> FlatW(d[3])
      [] Tag(d) = "FlatAlt" -> FlatW(d[3])
      [] Tag(d) = "Union" -> FlatW(d[2])
      [] Tag(d) = "Annotated" -> FlatW(d[2])
      [] OTHER -> 0

(* The flat width of what follows the node at path p inside d. *)
RECURSIVE FlatWAfter(_, _)
FlatWAfter(d, p) ==
    IF p = <<>> THEN 0
    ELSE FlatWAfter(Child(d, Head(p)), Tail(p))
         + (IF Tag(d) = "Append" /\ Head(p) = 1 THEN FlatW(d[3]) ELSE 0)

(* The path of p relative to its ancestor g. *)
Rel(g, p) == SubSeq(p, Len(g) + 1, Len(p))

(* The sum of the offsets of the Nest nodes enclosing p. *)
NestSum(p) ==
    LET N[n \in 0..Len(p)] ==
          IF n = 0 THEN 0
          ELSE N[n - 1] + (IF IsTag(SubSeq(p, 1, n - 1), "Nest")
                           THEN At(SubSeq(p, 1, n - 1))[2] ELSE 0)
    IN  N[Len(p)]

Suffix(s, n) == SubSeq(s, Len(s) - n + 1, Len(s))

Done == pc = "done"

(* s1 \o <<"\n">> \o s2 \o ... : the lines of an expected output. *)
RECURSIVE Lines(_)
Lines(ls) ==
    IF Len(ls) = 1 THEN ls[1] ELSE ls[1] \o <<"\n">> \o Lines(Tail(ls))

Sp(n) == [i \in 1..n |-> " "]

(***************************************************************************)
(* C1.  In the main loop a Group(d) popped in Break mode with indent i at  *)
(* column pos is pushed as (i, Flat, d) exactly when the fit test seeded   *)
(* with (i, Flat, d) and budget width - pos succeeds and as (i, Break, d)  *)
(* otherwise; a Group(d) popped in Flat mode is pushed as (i, Flat, d) and *)
(* no fit test runs (the scratch stack is left as it was).                 *)
(***************************************************************************)
C1_GroupStep ==
    Popped("Group") =>
        LET c == Top(bcmds)
            d == c.doc \o <<1>>
            f == fitting(Cmd(c.ind, Flat, d), Pop(bcmds), fcmds, width - pos)
        IN  IF c.mode = Break
            THEN bcmds' = Push(Pop(bcmds),
                               Cmd(c.ind, IF f.fits THEN Flat ELSE Break, d))
            ELSE bcmds' = Push(Pop(bcmds), Cmd(c.ind, Flat, d)) /\ fcmds' = fcmds

C1_GroupModeByFitTest == [][C1_GroupStep]_vars

(* A Break-mode group met at a column > 0 has just been laid out Flat, a
   group before it was laid out Break, and the page width decided it: the
   flat width of the group fits the page but not what is left of the line. *)
C1_Witness ==
    /\ hist # <<>>
    /\ IsTag(Last.doc, "Group")
    /\ Last.mode = Break
    /\ pos > 0
    /\ bcmds # <<>>
    /\ Top(bcmds) = Cmd(Last.ind, Flat, Last.doc \o <<1>>)
    /\ \E i \in 1..(Len(hist) - 1) :
          /\ IsTag(hist[i].doc, "Group")
          /\ hist[i].mode = Break
          /\ hist[i + 1].mode = Break

(***************************************************************************)
(* C2.  A hard line break inside a group does not make the rest of the     *)
(* group count as fitting: a soft break that belongs directly to a group,  *)
(* after a hard line of that group, is rendered in Break mode (a newline)  *)
(* whenever the flat text of the group after the hard line is wider than   *)
(* the page; group(test hardline test line test) at width 6 is             *)
(* "test\ntest\ntest".                                                     *)
(***************************************************************************)
(* h, a path below group g, is a hard line of g before the soft break s and
   the flat text of g after it is wider than the page. *)
WideAfterHard(g, h, s) ==
    /\ IsTag(g \o h, "Line")
    /\ PlainlyInside(g, g \o h)
    /\ Before(g \o h, s)
    /\ FlatWAfter(At(g), h) > width

C2_SoftAfterHardBreaks ==
    /\ (hist # <<>> /\ IsSoft(Last.doc)) =>
          \A g \in Enclosing(Last.doc) :
             (Owns(g, Last.doc) /\ \E h \in Paths(At(g)) : WideAfterHard(g, h, Last.doc))
                => Last.mode = Break
    /\ (Done /\ doc = newline_too_long /\ width = 6) =>
          out = Lines(<<Str_test, Str_test, Str_test>>)

(* Such a soft break has been popped, in a group whose text up to the hard
   line fits the page. *)
C2_Witness ==
    /\ hist # <<>>
    /\ IsSoft(Last.doc)
    /\ Last.mode = Break
    /\ \E g \in Enclosing(Last.doc) :
          /\ Owns(g, Last.doc)
          /\ \E h \in Paths(At(g)) :
                /\ WideAfterHard(g, h, Last.doc)
                /\ FlatW(At(g)) - FlatWAfter(At(g), h) <= width
                /\ FlatW(At(g)) - FlatWAfter(At(g), h) > 0

(***************************************************************************)
(* C3.  The fit test returns true as soon as it reaches a Line while the   *)
(* budget is still >= 0, so text after the first line break that follows a *)
(* group never counts against the group: a Break-mode group is laid out    *)
(* Flat whenever its flat text and what follows it up to the first Line    *)
(* fit in width - pos.  (Stated for a group whose flat layout holds no     *)
(* Line itself, so that the first Line is one that follows the group.)     *)
(***************************************************************************)
(* d laid out flat reaches no Line. *)
RECURSIVE NoFlatLine(_)
NoFlatLine(d) ==
    CASE Tag(d) = "Line" -> FALSE
      [] Tag(d) = "Append" -> NoFlatLine(d[2]) /\ NoFlatLine(d[3])
      [] Tag(d) = "Group" -> NoFlatLine(d[2])
      [] Tag(d) = "Nest" -> NoFlatLine(d[3])
      [] Tag(d) = "FlatAlt" -> NoFlatLine(d[3])
      [] Tag(d) = "Union" -> NoFlatLine(d[2])
      [] Tag(d) = "Annotated" -> NoFlatLine(d[2])
      [] Tag(d) \in {"Column", "Nesting"} -> FALSE
      [] OTHER -> TRUE

(* The width of the text the commands of stack st (top last) produce up to
   the first Line they reach. *)
RECURSIVE WidthToLine(_)
WidthToLine(st) ==
    IF st = <<>> THEN 0
    ELSE LET c == Top(st)
             r == Pop(st)
             d == At(c.doc)
             sub(i) == Cmd(c.ind, c.mode, c.doc \o <<i>>)
         IN  CASE Tag(d) = "Text" -> Len(Str(d)) + WidthToLine(r)
               [] Tag(d) = "Line" -> 0
               [] Tag(d) = "Nil" -> WidthToLine(r)
               [] Tag(d) = "Append" -> WidthToLine(Push(Push(r, sub(2)), sub(1)))
               [] Tag(d) = "Group" -> WidthToLine(Push(r, sub(1)))
               [] Tag(d) = "Nest" -> WidthToLine(Push(r, sub(1)))
               [] Tag(d) = "FlatAlt" ->
                    WidthToLine(Push(r, sub(IF c.mode = Flat THEN 2 ELSE 1)))
               [] Tag(d) = "Union" -> WidthToLine(Push(r, sub(1)))
               [] Tag(d) = "Annotated" ->
                    WidthToLine(IF c.mode = PopAnnotation THEN r ELSE Push(r, sub(1)))
               [] Tag(d) = "Column" -> WidthToLine(Push(r, sub(pos + 1)))
               [] Tag(d) = "Nesting" -> WidthToLine(Push(r, sub(c.ind + 1)))

C3_FitStopsAtLine ==
    (/\ hist # <<>>
     /\ IsTag(Last.doc, "Group")
     /\ Last.mode = Break
     /\ NoFlatLine(At(Last.doc))
     /\ WidthToLine(Push(Pop(bcmds), Cmd(Last.ind, Flat, Last.doc \o <<1>>)))
           <= width - pos)
    => Top(bcmds).mode = Flat

(***************************************************************************)
(* C4.  A group is laid out flat when its flat text plus the text up to    *)
(* the next line-break opportunity fits, also when that opportunity is a   *)
(* soft line in a later, undecided group: group(test line) test            *)
(* group(line) test at width 9 is "test test\ntest".                       *)
(***************************************************************************)
C4_SpaceDoNotResetPos ==
    (Done /\ doc = space_do_not_reset_pos /\ width = 9) =>
        out = Lines(<<Str_test \o <<" ">> \o Str_test, Str_test>>)

(***************************************************************************)
(* C5.  Hard line survival: the render of group(d) holds a newline         *)
(* whenever d holds a hard line, and a Line that reaches the main loop is  *)
(* written as newline + indent in Flat mode as in Break mode.              *)
(***************************************************************************)
HasNewline == \E i \in 1..Len(out) : out[i] = "\n"

LineWritten ==
    (hist # <<>> /\ IsTag(Last.doc, "Line")) =>
        /\ Len(out) > Last.ind
        /\ Suffix(out, Last.ind + 1) = nl_spaces(Last.ind)

(* As claimed: a hard line is a Line outside every FlatAlt. *)
C5_AnyHardLine ==
    /\ (Done /\ IsTag(<<>>, "Group") /\ \E p \in Paths(doc) : IsHard(p))
          => HasNewline
    /\ LineWritten

(* p is a Line outside every FlatAlt and every Union. *)
IsHardAlways(p) ==
    /\ IsTag(p, "Line")
    /\ \A q \in Enclosing(p) : Tag(At(q)) \notin {"FlatAlt", "Union"}

(* As amended: the hard line also lies outside every Union. *)
C5_HardLineSurvival ==
    /\ (Done /\ IsTag(<<>>, "Group") /\ \E p \in Paths(doc) : IsHardAlways(p))
          => HasNewline
    /\ LineWritten

(* A hard line of a group laid out Flat has been written in Flat mode. *)
C5_Witness ==
    /\ IsTag(<<>>, "Group")
    /\ hist # <<>>
    /\ IsHardAlways(Last.doc)
    /\ Last.mode = Flat
    /\ Last.ind > 0
    /\ HasNewline

(***************************************************************************)
(* C6.  For a document built from text, line, line_, hardline, nest, group *)
(* and append: once a Break-mode group has been laid out Flat after a      *)
(* successful fit test, the output line it starts on never passes the page *)
(* width, up to the next newline or the end of the output.                 *)
(***************************************************************************)
RECURSIVE Plain(_)
Plain(d) ==
    CASE Tag(d) = "Append" -> Plain(d[2]) /\ Plain(d[3])
      [] Tag(d) = "Group" -> Plain(d[2])
      [] Tag(d) = "Nest" -> Plain(d[3])
      [] Tag(d) = "FlatAlt" -> d \in {line, line_}
      [] Tag(d) = "Union" -> FALSE
      [] Tag(d) \in {"Column", "Nesting", "Annotated"} -> FALSE
      [] OTHER -> TRUE

C6_FlatGroupFitsPage == (Plain(doc) /\ flatLine) => pos <= width

(* A line holding a group laid out Flat at a column > 0 has ended exactly
   at the page width. *)
C6_Witness ==
    /\ Plain(doc)
    /\ flatLine
    /\ Done
    /\ pos = width
    /\ \E i \in 1..(Len(hist) - 1) :
          /\ IsTag(hist[i].doc, "Group")
          /\ hist[i].mode = Break
          /\ hist[i + 1].mode = Flat
          /\ hist[i].doc # <<>>
          /\ FlatW(At(hist[i].doc)) > 0
          /\ FlatW(At(hist[i].doc)) < width

(***************************************************************************)
(* C7.  All soft breaks that belong directly to one group get the same     *)
(* layout in a render: all Flat or all Break.  "(" group(nest(1, 1 line 2  *)
(* line 3)) ")" is "(1 2 3)" at width 10 and "(1\n 2\n 3)" at width 5.     *)
(***************************************************************************)
SameGroup(p, q) == \E g \in Enclosing(p) : Owns(g, p) /\ Owns(g, q)

C7_OneLayoutPerGroup ==
    /\ (hist # <<>> /\ IsSoft(Last.doc)) =>
          \A i \in 1..(Len(hist) - 1) :
             (IsSoft(hist[i].doc) /\ SameGroup(hist[i].doc, Last.doc))
                => hist[i].mode = Last.mode
    /\ (Done /\ doc = sexp /\ width = 10) =>
          out = <<"(", "1", " ", "2", " ", "3", ")">>
    /\ (Done /\ doc = sexp /\ width = 5) =>
          out = Lines(<<<<"(", "1">>, <<" ", "2">>, <<" ", "3", ")">>>>)

(* Two soft breaks of one group have been rendered in Break mode while a
   soft break of another group of the document was rendered Flat. *)
C7_Witness ==
    /\ Done
    /\ \E i \in 1..Len(hist), j \in 1..Len(hist) :
          /\ i < j
          /\ IsSoft(hist[i].doc)
          /\ IsSoft(hist[j].doc)
          /\ SameGroup(hist[i].doc, hist[j].doc)
          /\ hist[i].mode = Break
          /\ hist[j].mode = Break
    /\ \E k \in 1..Len(hist) : IsSoft(hist[k].doc) /\ hist[k].mode = Flat

(***************************************************************************)
(* C8.  Every newline written for a Line is followed by exactly indent     *)
(* spaces, indent being the sum of the offsets of the Nest nodes that      *)
(* enclose the Line, and pos becomes that indent; a Nest changes neither   *)
(* the output nor pos.  The block of the tests at width 5 is               *)
(* "{\n  test\n  test\n}".                                                 *)
(***************************************************************************)
C8_LineState ==
    /\ (hist # <<>> /\ IsTag(Last.doc, "Line")) =>
          /\ pos = NestSum(Last.doc)
          /\ Len(out) > NestSum(Last.doc)
          /\ Suffix(out, NestSum(Last.doc) + 1) = nl_spaces(NestSum(Last.doc))
    /\ (Done /\ doc = block /\ width = 5) =>
          out = Lines(<<<<"{">>, Sp(2) \o Str_test, Sp(2) \o Str_test, <<"}">>>>)

C8_NestStep == Popped("Nest") => (out' = out /\ pos' = pos)

C8_IndentIsNestSum == []C8_LineState /\ [][C8_NestStep]_vars

(* A Line nested by 2 has been written after text on the line before it. *)
C8_Witness ==
    /\ hist # <<>>
    /\ IsTag(Last.doc, "Line")
    /\ NestSum(Last.doc) = 2
    /\ pos = 2
    /\ Len(out) > 3
    /\ out[Len(out) - 3] # "\n"

(***************************************************************************)
(* C9.  FlatAlt(a, b) continues as a when met in Break mode and as b when  *)
(* met in Flat mode, in the main loop and in the fit test: a group at the  *)
(* root is laid out Flat exactly when its flat width, with b taken for     *)
(* every FlatAlt, is at most the page width.  group(test line test) is     *)
(* "test test" at width 10 and "test\ntest" at width 5; line_ writes       *)
(* nothing when flat.                                                      *)
(***************************************************************************)
C9_FlatAltByMode ==
    /\ (Len(hist) >= 2 /\ IsTag(Prev.doc, "FlatAlt")) =>
          Last = Cmd(Prev.ind, Prev.mode,
                     Prev.doc \o (IF Prev.mode = Flat THEN <<2>> ELSE <<1>>))
    /\ (Len(hist) >= 2 /\ IsTag(<<>>, "Group")) =>
          (hist[2].mode = Flat <=> FlatW(doc[2]) <= width)
    /\ (Done /\ doc = box_doc /\ width = 10) => out = Str_test \o <<" ">> \o Str_test
    /\ (Done /\ doc = box_doc /\ width = 5) => out = Lines(<<Str_test, Str_test>>)
    /\ (Done /\ doc = line__doc /\ width = 100) =>
          out = <<"(">> \o Str_test \o <<" ">> \o Str_test \o <<")">>

(* A line_ met in Flat mode has continued as Nil after a soft break of the
   same render continued as Line. *)
C9_Witness ==
    /\ Len(hist) >= 2
    /\ IsSoft(Prev.doc)
    /\ Prev.mode = Flat
    /\ IsTag(Last.doc, "Nil")
    /\ \E i \in 1..(Len(hist) - 1) :
          IsSoft(hist[i].doc) /\ hist[i].mode = Break /\ IsTag(hist[i + 1].doc, "Line")

(***************************************************************************)
(* C10.  Union(a, b) met in Break mode renders a when the first line of a, *)
(* tested flat, fits in width - pos and b otherwise; met in Flat mode it   *)
(* renders a.  The union of the tests, single \/ (hang \/ break_all), is   *)
(* the single-line layout at width 70, the hanging layout at width 14 and  *)
(* the break-all layout at width 8.                                        *)
(***************************************************************************)
union_single_out == Str_let \o <<" ", "x", " ", "=", " ", "(", "x", ",", " ">>
                       \o Str_digits \o <<",", ")">>

union_hang_out ==
    Lines(<<Str_let \o <<" ", "x", " ", "=", " ", "(">>,
            Sp(2) \o <<"x", ",">>,
            Sp(2) \o Str_digits \o <<",">>,
            <<")">>>>)

union_break_all_out ==
    Lines(<<Str_let \o <<" ", "x", " ", "=">>,
            Sp(2) \o <<"(">>,
            Sp(4) \o <<"x", ",">>,
            Sp(4) \o Str_digits \o <<",">>,
            Sp(2) \o <<")">>>>)

C10_UnionLayouts ==
    /\ (Len(hist) >= 2 /\ IsTag(Prev.doc, "Union") /\ Prev.mode = Flat) =>
          Last = Cmd(Prev.ind, Flat, Prev.doc \o <<1>>)
    /\ (Done /\ doc = union_doc /\ width = DefaultTestWidth) => out = union_single_out
    /\ (Done /\ doc = union_doc /\ width = 14) => out = union_hang_out
    /\ (Done /\ doc = union_doc /\ width = 8) => out = union_break_all_out

(***************************************************************************)
(* Vocabulary of the claims that compare two renders.  render(d, w) is the *)
(* output best writes for d at width w; the unbounded width is the largest *)
(* one the cast `as i64` leaves alone, far above the flat width of every   *)
(* document rendered here.                                                 *)
(***************************************************************************)
Unbounded == 2 ^ (IntBits - 1) - 1

(* d holds no closure. *)
RECURSIVE NoFn(_)
NoFn(d) ==
    CASE Tag(d) \in {"Append", "FlatAlt", "Union"} -> NoFn(d[2]) /\ NoFn(d[3])
      [] Tag(d) \in {"Group", "Annotated"} -> NoFn(d[2])
      [] Tag(d) = "Nest" -> NoFn(d[3])
      [] Tag(d) \in {"Column", "Nesting"} -> FALSE
      [] OTHER -> TRUE

(* The main loop and best as a function write the same characters. *)
BestAgrees == (Done /\ NoFn(doc)) => out = best(<<>>, width)

NoBreak(s) == \A i \in 1..Len(s) : s[i] # "\n"

(* s without its line breaks and without the spaces that follow a line
   break up to the first other character. *)
RECURSIVE StripFrom(_, _)
StripFrom(s, indent) ==
    IF s = <<>> THEN <<>>
    ELSE IF Head(s) = "\n" THEN StripFrom(Tail(s), TRUE)
    ELSE IF indent /\ Head(s) = " " THEN StripFrom(Tail(s), TRUE)
    ELSE <<Head(s)>> \o StripFrom(Tail(s), FALSE)

StripLayout(s) == StripFrom(s, FALSE)

(* s without its line breaks and without any space. *)
StripBlank(s) == SelectSeq(s, LAMBDA ch : ch \notin {" ", "\n"})

(***************************************************************************)
(* C11.  Text preservation: the render of a document at any width and its  *)
(* render at unbounded width are the same character sequence once          *)
(* indentation and line breaks are removed.                                *)
(***************************************************************************)
(* As claimed: for every document, removing line breaks and indentation. *)
C11_TextPreserved ==
    (Done /\ NoFn(doc)) => StripLayout(out) = StripLayout(best(<<>>, Unbounded))

(* As amended: for a document built from text, line, line_, hardline,
   nest, group and append, removing line breaks and every space; the
   unbounded width is taken both as Unbounded and as u64::MAX. *)
C11_TextPreservedModuloBlanks ==
    /\ BestAgrees
    /\ (Done /\ Plain(doc)) =>
          \A w \in {Unbounded, u64_MAX} : StripBlank(out) = StripBlank(best(<<>>, w))

(* A render with text on several lines whose unbounded render is one line
   with a space in it. *)
C11_Witness ==
    /\ Done
    /\ Plain(doc)
    /\ HasNewline
    /\ StripBlank(out) # <<>>
    /\ out[1] # "\n"
    /\ out[Len(out)] # "\n"
    /\ NoBreak(best(<<>>, Unbounded))
    /\ \E i \in 1..Len(best(<<>>, Unbounded)) : best(<<>>, Unbounded)[i] = " "

(***************************************************************************)
(* C12.  Group monotonicity: when the render of group(d) at width w holds  *)
(* no line break, its render at every width w' >= w holds none either.     *)
(***************************************************************************)
WiderWidths == (0..MaxWidth) \cup TestWidths \cup WrapWidths

C12_GroupMonotone ==
    (Done /\ IsTag(<<>>, "Group") /\ NoFn(doc) /\ NoBreak(out)) =>
        \A w \in WiderWidths : (w >= width) => NoBreak(best(<<>>, w))

(***************************************************************************)
(* C13.  Nil neutrality: an Append node with a Nil operand renders as its  *)
(* other operand does at the same width, the builder append returns the    *)
(* other operand itself when one operand is Nil, and the main loop pops a  *)
(* Nil writing nothing and leaving pos as it was.                          *)
(***************************************************************************)
C13_NilOperand ==
    /\ append(nil, doc) = doc
    /\ append(doc, nil) = doc
    /\ BestAgrees
    /\ (Done /\ NoFn(doc) /\ Tag(doc) = "Append")
          => /\ (doc[2] = Nil) => out = best(<<2>>, width)
             /\ (doc[3] = Nil) => out = best(<<1>>, width)

C13_NilStep ==
    Popped("Nil") =>
        (bcmds' = Pop(bcmds) /\ UNCHANGED <<out, pos, res, anns, fcmds>>)

C13_NilNeutral == []C13_NilOperand /\ [][C13_NilStep]_vars

(* A group that fills the page exactly has been laid out Flat by a fit test
   that read the Nil operand after it, and that Nil has been popped. *)
C13_Witness ==
    /\ Done
    /\ Tag(doc) = "Append"
    /\ doc[3] = Nil
    /\ IsTag(<<1>>, "Group")
    /\ FlatW(doc[2]) = width
    /\ width > 0
    /\ out # <<>>
    /\ NoBreak(out)
    /\ Last.doc = <<2>>

(***************************************************************************)
(* C14.  Append associativity: append(append(a, b), c) and                 *)
(* append(a, append(b, c)) render alike at every width, also when a, b or  *)
(* c hold groups whose fit test looks ahead into the operands after them.  *)
(***************************************************************************)
C14_AppendAssociative ==
    /\ BestAgrees
    /\ (Done /\ doc \in GenAssoc) => best(<<1>>, width) = best(<<2>>, width)

(* a is a group that fits the page by itself and is laid out Break because
   of the text of b and c after it. *)
C14_Witness ==
    /\ Done
    /\ doc \in GenAssoc
    /\ IsTag(<<1, 1, 1>>, "Group")
    /\ IsTag(<<1, 1, 2>>, "Text")
    /\ IsTag(<<1, 2>>, "Text")
    /\ FlatW(At(<<1, 1, 1>>)) <= width
    /\ ~NoBreak(SubSeq(best(<<1>>, width), 1, FlatW(At(<<1, 1, 1>>)) + 1))

(***************************************************************************)
(* C15.  Column(f) continues with f at the current output column and       *)
(* Nesting(f) with f at the current indent, the sum of the offsets of the  *)
(* enclosing Nest nodes, in the same indent and mode.  "prefix " ++        *)
(* column(f) gives "prefix | <- column 7" and "prefix " ++ nest(4,         *)
(* nesting(f)) gives "prefix [Nested: 4]".                                 *)
(***************************************************************************)
(* The number of characters of s after its last line break. *)
Col(s) ==
    LET nl == { i \in 1..Len(s) : s[i] = "\n" }
    IN  IF nl = {} THEN Len(s) ELSE Len(s) - (CHOOSE i \in nl : \A j \in nl : j <= i)

C15_ClosureArguments ==
    /\ (hist # <<>> /\ IsTag(Last.doc, "Column")) =>
          Top(bcmds) = Cmd(Last.ind, Last.mode, Last.doc \o <<Col(out) + 1>>)
    /\ (hist # <<>> /\ IsTag(Last.doc, "Nesting")) =>
          Top(bcmds) = Cmd(Last.ind, Last.mode, Last.doc \o <<NestSum(Last.doc) + 1>>)
    /\ (Done /\ doc = column_doc /\ width = 80) =>
          out = Str_prefix \o Str_column \o <<"7">>
    /\ (Done /\ doc = nesting_doc /\ width = 80) =>
          out = Str_prefix \o Str_nested \o <<"4", "]">>

(* A Column has been popped after text on a line that is not the first. *)
C15_Witness ==
    /\ hist # <<>>
    /\ IsTag(Last.doc, "Column")
    /\ HasNewline
    /\ Col(out) > 0
    /\ Col(out) < Len(out)

(***************************************************************************)
(* C16.  Annotation balance: the pop_annotation calls never outnumber the  *)
(* push_annotation calls, a finished render has made as many of each, each *)
(* pop closes the innermost open push, and whatever is written for a       *)
(* subdocument is written while exactly the annotations that enclose it    *)
(* are open; also with a hardline inside the annotation and across groups. *)
(***************************************************************************)
(* The annotated nodes open after the calls a, innermost last; a pop that
   does not close the innermost open one leaves the mark "unbalanced". *)
RECURSIVE Open(_)
Open(a) ==
    IF a = <<>> THEN <<>>
    ELSE LET before == Open(Pop(a))
             call == Top(a)
         IN  IF call.op = "push" THEN Push(before, call.node)
             ELSE IF before # <<>> /\ Top(before) = call.node THEN Pop(before)
             ELSE <<"unbalanced">>

Calls(op) == Cardinality({ i \in 1..Len(anns) : anns[i].op = op })

C16_AnnotationBalance ==
    /\ Calls("pop") <= Calls("push")
    /\ Done => Calls("pop") = Calls("push")
    /\ \A k \in 1..Len(anns) : Open(SubSeq(anns, 1, k)) # <<"unbalanced">>
    /\ Done => Open(anns) = <<>>
    /\ (hist # <<>> /\ Tag(At(Last.doc)) \in {"Text", "Line"}) =>
          { Open(anns)[i] : i \in 1..Len(Open(anns)) }
             = { q \in Enclosing(Last.doc) : IsTag(q, "Annotated") }
    /\ (Done /\ doc = annotation_no_panic /\ width = DefaultTestWidth) =>
          /\ out = Lines(<<Str_test, Str_test>>)
          /\ anns = << AnnCall("push", <<1, 1>>, 0), AnnCall("push", <<1, 1, 1, 1>>, 0),
                       AnnCall("pop", <<1, 1, 1, 1>>, 4), AnnCall("pop", <<1, 1>>, 5) >>

(* Two annotations, one inside the other, have been closed after a line
   break written inside the outer one. *)
C16_Witness ==
    /\ Done
    /\ Len(anns) = 4
    /\ anns[2].op = "push"
    /\ anns[4].at > anns[3].at
    /\ \E i \in 1..Len(out) : out[i] = "\n" /\ anns[1].at < i /\ i <= anns[4].at

(***************************************************************************)
(* C17.  At the width u64::MAX the budget width - pos handed to the fit    *)
(* test does not wrap to a negative value: in a document without hard line *)
(* every Break-mode group is laid out Flat; group(test line test) is       *)
(* "test test".                                                            *)
(***************************************************************************)
C17_MaxWidthUnbounded ==
    /\ (hist # <<>> /\ IsTag(Last.doc, "Group") /\ Last.mode = Break
            /\ width = u64_MAX /\ NoFn(doc)
            /\ \A p \in Paths(doc) : ~IsHard(p))
          => Top(bcmds).mode = Flat
    /\ (Done /\ doc = box_doc /\ width = u64_MAX) => out = Str_test \o <<" ">> \o Str_test

(***************************************************************************)
(* C18.  After a write to the sink has failed the loop makes no further    *)
(* call to the sink and pops no further command: best returns with res     *)
(* still that error, and the output is what was written before the failed  *)
(* write.                                                                  *)
(***************************************************************************)
Written(c) ==
    IF IsTag(c.doc, "Text") THEN At(c.doc)[2]
    ELSE IF IsTag(c.doc, "Line") THEN nl_spaces(c.ind)
    ELSE <<>>

(* What the commands h write, in order. *)
RECURSIVE Emitted(_)
Emitted(h) == IF h = <<>> THEN <<>> ELSE Emitted(Pop(h)) \o Written(Top(h))

IsPrefix(s, t) == Len(s) <= Len(t) /\ s = SubSeq(t, 1, Len(s))

C18_FailedStep ==
    (res # "ok") => (pc' = "done" /\ UNCHANGED <<out, anns, res, bcmds, hist>>)

C18_FailedState ==
    (res # "ok") =>
        /\ res \in IoErrors
        /\ hist # <<>>
        /\ Tag(At(Last.doc)) \in {"Text", "Line"}
        /\ out = Emitted(Pop(hist))
        /\ NoFn(doc) => IsPrefix(out, best(<<>>, width))

C18_StopAtFirstFailure == []C18_FailedState /\ [][C18_FailedStep]_vars

(* best has returned an error after some output, with commands left on the
   stack and an annotation left open. *)
C18_Witness ==
    /\ Done
    /\ res = "EndOfFile"
    /\ out # <<>>
    /\ bcmds # <<>>
    /\ Open(anns) # <<>>
    /\ Written(Last) # <<>>

(***************************************************************************)
(* C19.  Output is written in document order: an Append pushes its right   *)
(* operand under its left one, every Text or Line the main loop pops comes *)
(* after all those popped earlier in the left-to-right order of the leaves *)
(* of the document, so none is popped twice, and the output is what the    *)
(* popped commands write, each once, in the order they were popped.        *)
(***************************************************************************)
C19_Order ==
    /\ (hist # <<>> /\ Tag(At(Last.doc)) \in {"Text", "Line"}) =>
          \A i \in 1..(Len(hist) - 1) :
             (Tag(At(hist[i].doc)) \in {"Text", "Line"}) => Before(hist[i].doc, Last.doc)
    /\ out = Emitted(hist)

C19_AppendStep ==
    Popped("Append") =>
        LET c == Top(bcmds)
        IN  /\ Len(bcmds') = Len(bcmds) + 1
            /\ Top(bcmds') = Cmd(c.ind, c.mode, c.doc \o <<1>>)
            /\ Top(Pop(bcmds')) = Cmd(c.ind, c.mode, c.doc \o <<2>>)

C19_DocumentOrder == []C19_Order /\ [][C19_AppendStep]_vars

(* Three texts of nested Appends have been written on more than one line. *)
C19_Witness ==
    /\ Done
    /\ Cardinality({ i \in 1..Len(hist) : IsTag(hist[i].doc, "Text") }) >= 3
    /\ HasNewline
    /\ \E i \in 1..Len(hist) : IsTag(hist[i].doc, "Append") /\ Len(hist[i].doc) >= 2

(***************************************************************************)
(* C20.  The fit test changes nothing of the renderer but the scratch      *)
(* stack: the step that runs it leaves the output, pos, res and the        *)
(* commands of bcmds below the popped group as they were, and its result   *)
(* and the scratch stack it leaves are those of a fit test started on an   *)
(* empty scratch stack.                                                    *)
(***************************************************************************)
C20_FitStep ==
    (Popped("Group") /\ Top(bcmds).mode = Break) =>
        LET c == Top(bcmds)
            next == Cmd(c.ind, Flat, c.doc \o <<1>>)
            f == fitting(next, Pop(bcmds), <<>>, as_i64(width) - as_i64(pos))
        IN  /\ UNCHANGED <<out, pos, res, anns>>
            /\ Len(bcmds') = Len(bcmds)
            /\ Pop(bcmds') = Pop(bcmds)
            /\ Top(bcmds').mode = (IF f.fits THEN Flat ELSE Break)
            /\ fcmds' = f.fcmds

C20_FitTestFrame == [][C20_FitStep]_vars

(* A fit test is about to run, and to succeed, on a scratch stack that an
   earlier fit test left non-empty. *)
C20_Witness ==
    /\ Popped("Group")
    /\ Top(bcmds).mode = Break
    /\ fcmds # <<>>
    /\ \E i \in 1..Len(hist) : IsTag(hist[i].doc, "Group") /\ hist[i].mode = Break
    /\ fitting(Cmd(Top(bcmds).ind, Flat, Top(bcmds).doc \o <<1>>), Pop(bcmds), <<>>,
               as_i64(width) - as_i64(pos)).fits

(***************************************************************************)
(* C21.  Rendering terminates: every step of the main loop makes the       *)
(* commands on bcmds smaller in total, counting the nodes of their         *)
(* subdocuments, so the loop ends; and the loop of every fit test runs at  *)
(* most once for each node it is handed and once for each command of bcmds *)
(* it reads.                                                               *)
(***************************************************************************)
(* The number of nodes of d; an Annotated counts its marker too. *)
RECURSIVE Size(_)
Size(d) ==
    CASE Tag(d) \in {"Append", "FlatAlt", "Union"} -> 1 + Size(d[2]) + Size(d[3])
      [] Tag(d) = "Group" -> 1 + Size(d[2])
      [] Tag(d) = "Annotated" -> 2 + Size(d[2])
      [] Tag(d) = "Nest" -> 1 + Size(d[3])
      [] Tag(d) \in {"Column", "Nesting"} ->
           LET S[n \in 0..Len(d[2])] == IF n = 0 THEN 1 ELSE S[n - 1] + Size(d[2][n])
           IN  S[Len(d[2])]
      [] OTHER -> 1

Weight(c) == IF c.mode = PopAnnotation THEN 1 ELSE Size(At(c.doc))

RECURSIVE Measure(_)
Measure(st) == IF st = <<>> THEN 0 ELSE Weight(Top(st)) + Measure(Pop(st))

(* The number of times the loop of fitting runs its body. *)
RECURSIVE FitIters(_, _, _, _)
FitIters(bc, fc, bidx, rem) ==
    IF rem < 0 THEN 0
    ELSE IF fc = <<>>
         THEN IF bidx = 0
              THEN 0
              ELSE 1 + FitIters(bc, Push(fc, bc[bidx]), bidx - 1, rem)
         ELSE LET s == FitArm(Top(fc), Pop(fc), rem, TRUE)
              IN  1 + FitIters(bc, s.fcmds, bidx, s.rem)

C21_Step == Running => Measure(bcmds') < Measure(bcmds)

C21_FitReturns ==
    (Popped("Group") /\ Top(bcmds).mode = Break) =>
        LET c == Top(bcmds)
            next == Cmd(c.ind, Flat, c.doc \o <<1>>)
        IN  FitIters(Pop(bcmds), <<next>>, Len(bcmds) - 1, as_i64(width) - as_i64(pos))
               <= Weight(next) + Measure(Pop(bcmds)) + Len(bcmds) - 1

C21_Termination == <>Done /\ []C21_FitReturns /\ [][C21_Step]_vars

(* best has returned after a fit test that gave up (the group went on in
   Break mode) and one that succeeded (the group went on in Flat mode). *)
C21_Witness ==
    /\ Done
    /\ res = "ok"
    /\ Len(hist) >= 10
    /\ \E i \in 1..(Len(hist) - 1) :
          /\ IsTag(hist[i].doc, "Group")
          /\ hist[i].mode = Break
          /\ hist[i + 1].mode = Break
    /\ \E i \in 1..(Len(hist) - 1) :
          /\ IsTag(hist[i].doc, "Group")
          /\ hist[i].mode = Break
          /\ hist[i + 1].mode = Flat

C22_PosStep ==
    /\ (Popped("Text") /\ res' = "ok") =>
          /\ pos' = pos + Len(At(Top(bcmds).doc)[2])
          /\ out' = out \o At(Top(bcmds).doc)[2]
    /\ (Popped("Line") /\ res' = "ok") =>
          /\ pos' = Top(bcmds).ind
          /\ out' = out \o nl_spaces(Top(bcmds).ind)
    /\ (Running /\ Tag(At(Top(bcmds).doc)) \notin {"Text", "Line"}) =>
          UNCHANGED <<pos, out>>
    /\ ~Running => UNCHANGED <<pos, out>>

C23_NestStep ==
    Popped("Nest") =>
        LET sum == Top(bcmds).ind + At(Top(bcmds).doc)[2]
        IN  /\ pc' = "loop"
            /\ bcmds' # <<>>
            /\ Top(bcmds').ind = (IF sum < 0 THEN 0 ELSE sum)

C23_IndentsNonNegative ==
    /\ \A i \in 1..Len(bcmds) : bcmds[i].ind >= 0
    /\ \A i \in 1..Len(fcmds) : fcmds[i].ind >= 0

C23_SignedClampedNest == []C23_IndentsNonNegative /\ [][C23_NestStep]_vars

(***************************************************************************)
(* C24.  A document of the Doc type of doc.rs (Nil, Append, Group, Nest,   *)
(* Newline, Text) is written as the same characters at every page width:   *)
(* the mode chosen for a group changes nothing that is written.            *)
(***************************************************************************)
RECURSIVE DocRs(_)
DocRs(d) ==
    CASE Tag(d) = "Append" -> DocRs(d[2]) /\ DocRs(d[3])
      [] Tag(d) = "Group" -> DocRs(d[2])
      [] Tag(d) = "Nest" -> DocRs(d[3])
      [] Tag(d) \in {"Nil", "Line", "Text"} -> TRUE
      [] OTHER -> FALSE

C24_WidthIndependent ==
    (Done /\ DocRs(doc)) => \A w \in WiderWidths : out = best(<<>>, w)

(* A document of that type holding a Newline inside a group has been
   written with a group laid out in Break mode, at a width below wider ones
   at which the fit test succeeds. *)
C24_Witness ==
    /\ Done
    /\ DocRs(doc)
    /\ HasNewline
    /\ width < MaxWidth
    /\ \E p \in Paths(doc) :
          IsTag(p, "Line") /\ \E q \in Enclosing(p) : IsTag(q, "Group")
    /\ \E i \in 1..(Len(hist) - 1) :
          /\ IsTag(hist[i].doc, "Group")
          /\ hist[i].mode = Break
          /\ hist[i + 1].mode = Break

====
